---- MODULE Spec2Model ----
(***************************************************************************)
(* Sprint backlog manager of AgentDevTeam                                  *)
(* (src/autogen/agentchat/agent_dev_team.py): the backlog of user stories, *)
(* the current sprint, the sprint history and the JSON export.             *)
(* The records carry every field of the source except the timestamps       *)
(* created_at, timestamp and exported_at; a sprint's start_date and        *)
(* end_date are the two readings plan_sprint takes of the wall clock.      *)
(* API key lookup of WindowsClippyMCPClient                                *)
(* (src/autogen/mcp/clippy_mcp.py): the shared keys, the Key Vault mapping *)
(* and the Azure credentials.                                              *)
(***************************************************************************)
EXTENDS Integers, Sequences, FiniteSets, TLC

\* ------------------------------------------------------------------------
\* Bounds of the model
\* ------------------------------------------------------------------------
MaxStories == 2
MaxPlans == 2
MaxRuns == 1
MaxExplicit == 2
MaxElapsed == 1

\* ------------------------------------------------------------------------
\* Python values
\* ------------------------------------------------------------------------
\* Optional[T]: None is the empty tuple, a present value x is <<x>>.
None == <<>>
Some(x) == <<x>>
Get(o) == o[1]

\* str(n) for a non-negative int, digit by digit.
Digit(d) ==
    CASE d = 0 -> "0" [] d = 1 -> "1" [] d = 2 -> "2" [] d = 3 -> "3"
      [] d = 4 -> "4" [] d = 5 -> "5" [] d = 6 -> "6" [] d = 7 -> "7"
      [] d = 8 -> "8" [] d = 9 -> "9"

RECURSIVE IntStr(_)
IntStr(n) == IF n < 10 THEN Digit(n) ELSE IntStr(n \div 10) \o Digit(n % 10)

RECURSIVE ZeroPad(_, _)
ZeroPad(s, width) == IF Len(s) >= width THEN s ELSE ZeroPad("0" \o s, width)

\* f"US-{n:03d}"
StoryIdWidth == 3
\* Variant: the number is not zero-padded.
StoryId_Unpadded(n) == "US-" \o IntStr(n)

StoryId(n) == "US-" \o ZeroPad(IntStr(n), StoryIdWidth)

\* f"Sprint-{n}"
SprintId(n) == "Sprint-" \o IntStr(n)

\* A datetime: whole days since the manager was built and microseconds into
\* the day.
DateTime(days, microseconds) == [days |-> days, microseconds |-> microseconds]

\* t + timedelta(days=n)
AddDays(t, n) == [t EXCEPT !.days = @ + n]

\* The clock reading `elapsed` microseconds after the reading t.
Advance(t, elapsed) == [t EXCEPT !.microseconds = @ + elapsed]

\* str(t), as json.dump(..., default=str) writes a datetime.
DateStr(t) == "day " \o IntStr(t.days) \o " us " \o IntStr(t.microseconds)

\* ------------------------------------------------------------------------
\* SprintConfig and UserStory
\* ------------------------------------------------------------------------
DefaultCapacityPoints == 40
DefaultDurationDays == 14
DefaultStoryPoints == 5
DefaultPriority == 3

UserStory(id, title, description, acceptance_criteria, story_points, priority) ==
    [id |-> id, title |-> title, description |-> description,
     acceptance_criteria |-> acceptance_criteria,
     story_points |-> story_points, priority |-> priority,
     status |-> "backlog", assigned_to |-> None]

VARIABLES
    capacity_points,   \* sprint_config.capacity_points
    backlog,           \* self.backlog: sequence of UserStory
    current_sprint,    \* self.current_sprint: None or Some(sprint record)
    sprint_history,    \* self.sprint_history: sequence of result records
    create_calls,      \* number of create_user_story calls made so far
    plan_calls,        \* number of plan_sprint calls made so far
    auto_sprints,      \* the stories lists of the auto-selecting plan_sprint calls so far
    ret,               \* the last call: its name, arguments, return value, and the
                       \* manager's fields when it started (plan_sprint, which
                       \* overwrites current_sprint without reading it, keeps the
                       \* two fields it reads)
    config,            \* WindowsClippyMCPClient.config: None where no client is built
    azure_credentials, \* WindowsClippyMCPClient._azure_credentials
    clock,             \* the wall clock: what datetime.now() returns
    pending,           \* per caller: the story a create_user_story call has built
                       \* and not yet appended, or None
    interleaved,       \* whether a create_user_story call has built its story
                       \* while another call held one not yet appended
    agents,            \* AG2MCPServer.agents: name -> agent
    active_conversations, \* AG2MCPServer.active_conversations: key -> entries
    memory_store,      \* AG2MCPServer.memory_store: memory key -> record
    saves,             \* every save_memory call made so far, oldest first
    tool_calls,        \* how many tools of the MCP server have been called
    running            \* the tool calls that wait for an agent's reply

vars == <<capacity_points, backlog, current_sprint, sprint_history,
          create_calls, plan_calls, auto_sprints, ret, config, azure_credentials,
          clock, pending, interleaved, agents, active_conversations,
          memory_store, saves, tool_calls, running>>

\* The fields of the sprint manager and the record of its calls.
team_vars == <<capacity_points, backlog, current_sprint, sprint_history,
               create_calls, plan_calls, auto_sprints, clock>>

\* The fields of the MCP client.
client_vars == <<config, azure_credentials>>

\* The create_user_story calls under way when callers run concurrently.
caller_vars == <<pending, interleaved>>

\* The fields of the MCP server and the record of its saves.
server_vars == <<agents, active_conversations, memory_store, saves, tool_calls,
                 running>>

\* A dict with no keys.
EmptyDict == <<>>

\* d after d[k] = v
Put(d, k, v) == [x \in DOMAIN d \cup {k} |-> IF x = k THEN v ELSE d[x]]

\* The callers that may run create_user_story concurrently.
Callers == {"caller1", "caller2"}

\* No create_user_story call is under way.
NoCallers ==
    /\ pending = [c \in Callers |-> None]
    /\ interleaved = FALSE

\* No MCP server is in use.
NoServer ==
    /\ agents = EmptyDict
    /\ active_conversations = EmptyDict
    /\ memory_store = EmptyDict
    /\ saves = <<>>
    /\ tool_calls = 0
    /\ running = {}

\* The manager's fields, as a call finds them.
Fields == [backlog |-> backlog, current_sprint |-> current_sprint,
           sprint_history |-> sprint_history]

\* ------------------------------------------------------------------------
\* create_user_story
\* ------------------------------------------------------------------------
\* Variant: the two defaults are swapped.
NewStory_SwappedDefaults(bl, title, description, acceptance_criteria, story_points, priority) ==
    UserStory(StoryId(Len(bl) + 1), title, description, acceptance_criteria,
              IF story_points = None THEN DefaultPriority ELSE Get(story_points),
              IF priority = None THEN DefaultStoryPoints ELSE Get(priority))

NewStory(bl, title, description, acceptance_criteria, story_points, priority) ==
    UserStory(StoryId(Len(bl) + 1), title, description, acceptance_criteria,
              IF story_points = None THEN DefaultStoryPoints ELSE Get(story_points),
              IF priority = None THEN DefaultPriority ELSE Get(priority))

create_user_story(title, description, acceptance_criteria, story_points, priority) ==
    /\ Len(backlog) < MaxStories
    /\ LET story == NewStory(backlog, title, description, acceptance_criteria,
                             story_points, priority)
       IN /\ backlog' = Append(backlog, story)
          /\ ret' = [op |-> "create_user_story",
                     args |-> <<title, description, acceptance_criteria,
                                story_points, priority>>,
                     value |-> story, before |-> Fields]
    /\ create_calls' = create_calls + 1
    /\ UNCHANGED <<client_vars, caller_vars, server_vars, clock, capacity_points, current_sprint, sprint_history,
                   plan_calls, auto_sprints>>

\* ------------------------------------------------------------------------
\* plan_sprint
\* ------------------------------------------------------------------------
\* Variant: a story goes in front of the stories of its own priority.
RECURSIVE InsertByPriority_Unstable(_, _)
InsertByPriority_Unstable(sorted, s) ==
    IF sorted = <<>> THEN <<s>>
    ELSE IF sorted[Len(sorted)].priority < s.priority THEN Append(sorted, s)
    ELSE Append(InsertByPriority_Unstable(SubSeq(sorted, 1, Len(sorted) - 1), s),
                sorted[Len(sorted)])

\* sorted(self.backlog, key=lambda s: s.priority): Python's sort is stable.
RECURSIVE InsertByPriority(_, _)
InsertByPriority(sorted, s) ==
    IF sorted = <<>> THEN <<s>>
    ELSE IF sorted[Len(sorted)].priority <= s.priority THEN Append(sorted, s)
    ELSE Append(InsertByPriority(SubSeq(sorted, 1, Len(sorted) - 1), s),
                sorted[Len(sorted)])

\* Variant: the backlog is walked in creation order.
SortedByPriority_Unsorted(bl) == bl

RECURSIVE SortedByPriority(_)
SortedByPriority(bl) ==
    IF bl = <<>> THEN <<>>
    ELSE InsertByPriority(SortedByPriority(SubSeq(bl, 1, Len(bl) - 1)), bl[Len(bl)])

\* Variant: a story that takes exactly the points still available does not fit.
Selectable_StrictlyLess(story, available_points) ==
    story.story_points < available_points /\ story.status = "backlog"

\* Variant: the test ignores the points still available.
Selectable_IgnoringPoints(story, available_points) ==
    story.status = "backlog"

\* Variant: the test ignores the story's status.
Selectable_IgnoringStatus(story, available_points) ==
    story.story_points <= available_points

\* The test of the selection loop.
Selectable(story, available_points) ==
    story.story_points <= available_points /\ story.status = "backlog"

\* Variant: a story that is already in a sprint and fits is not selected but
\* still uses up points.
RECURSIVE SelectLoop_ChargingPlannedStories(_, _, _, _)
SelectLoop_ChargingPlannedStories(sorted_backlog, i, available_points, selected_stories) ==
    IF i > Len(sorted_backlog) THEN selected_stories
    ELSE IF sorted_backlog[i].story_points <= available_points
    THEN SelectLoop_ChargingPlannedStories(sorted_backlog, i + 1,
                    available_points - sorted_backlog[i].story_points,
                    IF sorted_backlog[i].status = "backlog"
                    THEN Append(selected_stories, sorted_backlog[i].id)
                    ELSE selected_stories)
    ELSE SelectLoop_ChargingPlannedStories(sorted_backlog, i + 1, available_points,
                                           selected_stories)

\* Variant: the walk ends at the first story in status backlog that does not
\* fit.
RECURSIVE SelectLoop_StoppingAtMisfit(_, _, _, _)
SelectLoop_StoppingAtMisfit(sorted_backlog, i, available_points, selected_stories) ==
    IF i > Len(sorted_backlog) THEN selected_stories
    ELSE IF Selectable(sorted_backlog[i], available_points)
    THEN SelectLoop_StoppingAtMisfit(sorted_backlog, i + 1,
                    available_points - sorted_backlog[i].story_points,
                    Append(selected_stories, sorted_backlog[i].id))
    ELSE IF sorted_backlog[i].status = "backlog"
    THEN selected_stories
    ELSE SelectLoop_StoppingAtMisfit(sorted_backlog, i + 1, available_points,
                                     selected_stories)

\* The selection loop over sorted_backlog from position i on.
RECURSIVE SelectLoop(_, _, _, _)
SelectLoop(sorted_backlog, i, available_points, selected_stories) ==
    IF i > Len(sorted_backlog) THEN selected_stories
    ELSE IF Selectable(sorted_backlog[i], available_points)
    THEN SelectLoop(sorted_backlog, i + 1,
                    available_points - sorted_backlog[i].story_points,
                    Append(selected_stories, sorted_backlog[i].id))
    ELSE SelectLoop(sorted_backlog, i + 1, available_points, selected_stories)

\* Variant: the walk starts with ten points more than the capacity.
AutoSelect_Overcommitting(bl, capacity) ==
    SelectLoop(SortedByPriority(bl), 1, capacity + 10, <<>>)

AutoSelect(bl, capacity) == SelectLoop(SortedByPriority(bl), 1, capacity, <<>>)

\* Variant: an explicit list loses the ids of stories already planned.
SelectedStories_EligibleOnly(bl, capacity, selected_stories) ==
    IF selected_stories = None
    THEN AutoSelect(bl, capacity)
    ELSE LET Keep(id) == ~\E i \in 1..Len(bl) :
                            bl[i].id = id /\ bl[i].status # "backlog"
         IN SelectSeq(Get(selected_stories), Keep)

\* Variant: `if not selected_stories`, so an empty list auto-selects as well.
SelectedStories_EmptyAutoSelects(bl, capacity, selected_stories) ==
    IF selected_stories = None \/ Get(selected_stories) = <<>>
    THEN AutoSelect(bl, capacity)
    ELSE Get(selected_stories)

\* Variant: an explicit list loses the ids that match no story.
SelectedStories_KnownOnly(bl, capacity, selected_stories) ==
    IF selected_stories = None
    THEN AutoSelect(bl, capacity)
    ELSE LET Keep(id) == \E i \in 1..Len(bl) : bl[i].id = id
         IN SelectSeq(Get(selected_stories), Keep)

\* The stories of the sprint: auto-selected if selected_stories is None, else
\* the caller's list as it is.
SelectedStories(bl, capacity, selected_stories) ==
    IF selected_stories = None
    THEN AutoSelect(bl, capacity)
    ELSE Get(selected_stories)

\* Variant: the stories that are not selected go back to status backlog.
UpdateStatuses_Releasing(bl, selected_stories) ==
    [i \in 1..Len(bl) |->
        IF \E j \in 1..Len(selected_stories) : bl[i].id = selected_stories[j]
        THEN [bl[i] EXCEPT !.status = "sprint_backlog"]
        ELSE [bl[i] EXCEPT !.status = "backlog"]]

\* Variant: the selected stories leave the backlog.
UpdateStatuses_Removing(bl, selected_stories) ==
    LET Stays(story) == ~\E j \in 1..Len(selected_stories) :
                            story.id = selected_stories[j]
    IN SelectSeq(bl, Stays)

\* Variant: every story of the backlog is moved into the sprint.
UpdateStatuses_All(bl, selected_stories) ==
    [i \in 1..Len(bl) |-> [bl[i] EXCEPT !.status = "sprint_backlog"]]

\* The status update loop: every story whose id occurs in selected_stories.
UpdateStatuses(bl, selected_stories) ==
    [i \in 1..Len(bl) |->
        IF \E j \in 1..Len(selected_stories) : bl[i].id = selected_stories[j]
        THEN [bl[i] EXCEPT !.status = "sprint_backlog"]
        ELSE bl[i]]

\* Variant: the sprints are numbered from 0.
SprintData_NumberedFromZero(history, sprint_goal, selected_stories, capacity, now_start, now_end) ==
    [id |-> SprintId(Len(history)),
     goal |-> sprint_goal,
     stories |-> selected_stories,
     start_date |-> now_start,
     end_date |-> AddDays(now_end, DefaultDurationDays),
     phase |-> "PLANNING",
     capacity |-> capacity]

\* now_start and now_end are the readings of the first and of the second
\* datetime.now() call.
SprintData(history, sprint_goal, selected_stories, capacity, now_start, now_end) ==
    [id |-> SprintId(Len(history) + 1),
     goal |-> sprint_goal,
     stories |-> selected_stories,
     start_date |-> now_start,
     end_date |-> AddDays(now_end, DefaultDurationDays),
     phase |-> "PLANNING",
     capacity |-> capacity]

\* `elapsed` is the time that passes between the two datetime.now() calls.
plan_sprint(sprint_goal, selected_stories, elapsed) ==
    /\ plan_calls < MaxPlans
    /\ LET stories == SelectedStories(backlog, capacity_points, selected_stories)
           sprint_data == SprintData(sprint_history, sprint_goal, stories,
                                     capacity_points, clock,
                                     Advance(clock, elapsed))
       IN /\ current_sprint' = Some(sprint_data)
          /\ clock' = Advance(clock, elapsed)
          /\ backlog' = UpdateStatuses(backlog, stories)
          /\ auto_sprints' = IF selected_stories = None
                             THEN Append(auto_sprints, stories)
                             ELSE auto_sprints
          /\ ret' = [op |-> "plan_sprint",
                     args |-> <<sprint_goal, selected_stories>>,
                     value |-> sprint_data,
                     before |-> [backlog |-> backlog,
                                 sprint_history |-> sprint_history]]
    /\ plan_calls' = plan_calls + 1
    /\ UNCHANGED <<client_vars, caller_vars, server_vars, capacity_points, sprint_history, create_calls>>

\* ------------------------------------------------------------------------
\* run_development_sprint
\* ------------------------------------------------------------------------
DefaultMaxIterations == 10
ProjectPath == "/project"

\* max_iterations or self.sprint_config.max_iterations: None and 0 are falsy.
EffectiveMaxIterations(max_iterations) ==
    IF max_iterations = None \/ Get(max_iterations) = 0
    THEN DefaultMaxIterations
    ELSE Get(max_iterations)

\* response.chat_history if hasattr(response, 'chat_history') else []
ChatHistory(response) ==
    IF "chat_history" \in DOMAIN response THEN response.chat_history ELSE <<>>

\* The record built when run_group_chat returns `response`.
SprintResults(feature_request, max_iterations, response) ==
    [feature_request |-> feature_request,
     sprint_execution |-> response.summary,
     chat_history |-> ChatHistory(response),
     project_path |-> ProjectPath,
     iterations_used |-> Len(ChatHistory(response)),
     max_iterations |-> EffectiveMaxIterations(max_iterations),
     status |-> "completed",
     phase |-> "COMPLETE"]

\* The record built when run_group_chat raises an exception with text `error`.
ErrorResults(feature_request, error) ==
    [feature_request |-> feature_request,
     error |-> error,
     status |-> "failed",
     phase |-> "DEVELOPMENT"]

\* Variant: a run moves the current sprint to the phase of its result.
run_development_sprint_AdvancingPhase(feature_request, max_iterations, outcome) ==
    /\ Len(sprint_history) < MaxRuns
    /\ LET results == IF outcome.raises
                      THEN ErrorResults(feature_request, outcome.error)
                      ELSE SprintResults(feature_request, max_iterations,
                                         outcome.response)
       IN /\ sprint_history' = Append(sprint_history, results)
          /\ current_sprint' =
                 IF current_sprint = None THEN None
                 ELSE Some([Get(current_sprint) EXCEPT !.phase = results.phase])
          /\ ret' = [op |-> "run_development_sprint",
                     args |-> <<feature_request, max_iterations>>,
                     outcome |-> outcome, raised |-> FALSE,
                     value |-> results, before |-> Fields]
    /\ UNCHANGED <<client_vars, caller_vars, server_vars, clock, capacity_points, backlog, create_calls, plan_calls, auto_sprints>>

\* Variant: without the except clause an exception of the runtime leaves
\* the call before anything is recorded.
run_development_sprint_Propagating(feature_request, max_iterations, outcome) ==
    /\ Len(sprint_history) < MaxRuns
    /\ IF outcome.raises
       THEN /\ sprint_history' = sprint_history
            /\ ret' = [op |-> "run_development_sprint",
                       args |-> <<feature_request, max_iterations>>,
                       outcome |-> outcome, raised |-> TRUE,
                       value |-> None, before |-> Fields]
       ELSE LET results == SprintResults(feature_request, max_iterations,
                                         outcome.response)
            IN /\ sprint_history' = Append(sprint_history, results)
               /\ ret' = [op |-> "run_development_sprint",
                          args |-> <<feature_request, max_iterations>>,
                          outcome |-> outcome, raised |-> FALSE,
                          value |-> results, before |-> Fields]
    /\ UNCHANGED <<client_vars, caller_vars, server_vars, clock, capacity_points, backlog, current_sprint,
                   create_calls, plan_calls, auto_sprints>>

\* outcome is what the group-chat runtime does: it returns a response, with
\* or without a chat_history attribute, or raises an Exception, which the
\* except clause catches.
run_development_sprint(feature_request, max_iterations, outcome) ==
    /\ Len(sprint_history) < MaxRuns
    /\ LET results == IF outcome.raises
                      THEN ErrorResults(feature_request, outcome.error)
                      ELSE SprintResults(feature_request, max_iterations,
                                         outcome.response)
       IN /\ sprint_history' = Append(sprint_history, results)
          /\ ret' = [op |-> "run_development_sprint",
                     args |-> <<feature_request, max_iterations>>,
                     outcome |-> outcome, raised |-> FALSE,
                     value |-> results, before |-> Fields]
    /\ UNCHANGED <<client_vars, caller_vars, server_vars, clock, capacity_points, backlog, current_sprint,
                   create_calls, plan_calls, auto_sprints>>

\* ------------------------------------------------------------------------
\* get_team_status and export_sprint_history
\* ------------------------------------------------------------------------
AgentRoles == {"product_owner", "tech_architect", "senior_developer",
               "qa_engineer", "devops_engineer", "scrum_master"}

\* role.value -> agent.name of the default agents
TeamComposition == [role \in AgentRoles |-> role]

DefaultFocusAreas == <<"functionality", "quality", "performance">>

\* Variant: backlog_size counts only the stories still in status backlog.
TeamStatus_CountingOpenStories(cur, bl, history, capacity) ==
    LET IsOpen(story) == story.status = "backlog"
    IN [team_composition |-> TeamComposition,
        current_sprint |-> cur,
        backlog_size |-> Len(SelectSeq(bl, IsOpen)),
        sprint_history_count |-> Len(history),
        project_path |-> ProjectPath,
        sprint_config |-> [duration_days |-> DefaultDurationDays,
                           capacity_points |-> capacity,
                           focus_areas |-> DefaultFocusAreas]]

\* The dict get_team_status builds from the manager's fields.
TeamStatus(cur, bl, history, capacity) ==
    [team_composition |-> TeamComposition,
     current_sprint |-> cur,
     backlog_size |-> Len(bl),
     sprint_history_count |-> Len(history),
     project_path |-> ProjectPath,
     sprint_config |-> [duration_days |-> DefaultDurationDays,
                        capacity_points |-> capacity,
                        focus_areas |-> DefaultFocusAreas]]

get_team_status ==
    /\ ret' = [op |-> "get_team_status", args |-> <<>>,
               value |-> TeamStatus(current_sprint, backlog, sprint_history,
                                    capacity_points),
               before |-> Fields]
    /\ UNCHANGED <<client_vars, caller_vars, server_vars, clock, capacity_points, backlog, current_sprint, sprint_history,
                   create_calls, plan_calls, auto_sprints>>

\* json.dump(..., default=str) of a SprintPhase member: str() of the member.
JsonPhase(phase) == "SprintPhase." \o phase

\* What json.load reads back for a dict that holds a SprintPhase under "phase".
JsonRecord(r) == [r EXCEPT !.phase = JsonPhase(r.phase)]

\* What json.load reads back for a sprint record: its dates are strings too.
JsonSprint(sprint) ==
    [JsonRecord(sprint) EXCEPT !.start_date = DateStr(@), !.end_date = DateStr(@)]

\* Variant: the entry carries the status a story is created with.
ExportStory_InitialStatus(story) ==
    [id |-> story.id, title |-> story.title, description |-> story.description,
     acceptance_criteria |-> story.acceptance_criteria,
     story_points |-> story.story_points, priority |-> story.priority,
     status |-> "backlog"]

\* The entry export_sprint_history builds for one story.
ExportStory(story) ==
    [id |-> story.id, title |-> story.title, description |-> story.description,
     acceptance_criteria |-> story.acceptance_criteria,
     story_points |-> story.story_points, priority |-> story.priority,
     status |-> story.status]

\* The document as json.load reads it back from the written file.
ExportData(cur, bl, history, capacity) ==
    [team_config |->
        [TeamStatus(cur, bl, history, capacity) EXCEPT
            !.current_sprint = IF cur = None THEN None ELSE Some(JsonSprint(Get(cur)))],
     backlog |-> [i \in 1..Len(bl) |-> ExportStory(bl[i])],
     sprint_history |-> [i \in 1..Len(history) |-> JsonRecord(history[i])]]

\* output_path or (self.project_path / "sprint_history.json")
ExportFile == "/project/sprint_history.json"

\* The call writes the document to the file and returns the path; `written` is
\* the document a reader gets back from that file.
export_sprint_history ==
    /\ LET export_data == ExportData(current_sprint, backlog, sprint_history,
                                     capacity_points)
       IN ret' = [op |-> "export_sprint_history", args |-> <<None>>,
                  value |-> ExportFile, written |-> export_data,
                  before |-> Fields]
    /\ UNCHANGED <<client_vars, caller_vars, server_vars, clock, capacity_points, backlog, current_sprint, sprint_history,
                   create_calls, plan_calls, auto_sprints>>

\* ------------------------------------------------------------------------
\* The manager: inputs, initial state, next-state relation
\* ------------------------------------------------------------------------
Titles == {"Login", "Search"}
Descriptions == {"As a user"}
CriteriaLists == {<<"AC1">>}
StoryPointArgs == {None, Some(50)}
PriorityArgs == {None, Some(1)}
Goals == {"G1", "G2"}
Capacities == {DefaultCapacityPoints}
UnknownId == "US-404"
ExplicitIds == {StoryId(1), StoryId(2), UnknownId}
FeatureRequests == {"feature"}
MaxIterationArgs == {None}
Outcomes == {[raises |-> FALSE,
              response |-> [summary |-> "done", chat_history |-> <<"m1", "m2">>]],
             [raises |-> FALSE, response |-> [summary |-> "done"]],
             [raises |-> TRUE, error |-> "runtime error"]}

RECURSIVE SeqsUpTo(_, _)
SeqsUpTo(S, n) ==
    IF n = 0 THEN {<<>>}
    ELSE LET shorter == SeqsUpTo(S, n - 1)
         IN shorter \cup {Append(q, x) : q \in shorter, x \in S}

ExplicitLists == SeqsUpTo(ExplicitIds, MaxExplicit)

Init ==
    /\ capacity_points \in Capacities
    /\ backlog = <<>>
    /\ current_sprint = None
    /\ sprint_history = <<>>
    /\ create_calls = 0
    /\ plan_calls = 0
    /\ auto_sprints = <<>>
    /\ ret = [op |-> "__init__", args |-> <<>>, value |-> None,
              before |-> [backlog |-> <<>>, current_sprint |-> None,
                          sprint_history |-> <<>>]]
    /\ config = None
    /\ azure_credentials = None
    /\ clock = DateTime(0, 0)
    /\ NoCallers
    /\ NoServer

CreateStep ==
    \E title \in Titles, description \in Descriptions,
       acceptance_criteria \in CriteriaLists,
       story_points \in StoryPointArgs, priority \in PriorityArgs :
        create_user_story(title, description, acceptance_criteria,
                          story_points, priority)

\* The lifecycle is explored with the two clock readings of a plan equal;
\* SpecClock lets time pass between them.
PlanAutoStep == \E goal \in Goals : plan_sprint(goal, None, 0)

PlanExplicitStep ==
    \E goal \in Goals, selected \in ExplicitLists :
        plan_sprint(goal, Some(selected), 0)

RunStep ==
    \E feature_request \in FeatureRequests, max_iterations \in MaxIterationArgs,
       outcome \in Outcomes :
        run_development_sprint(feature_request, max_iterations, outcome)

StatusStep == get_team_status

ExportStep == export_sprint_history

Next ==
    \/ CreateStep \/ PlanAutoStep \/ PlanExplicitStep \/ RunStep
    \/ StatusStep \/ ExportStep

Spec == Init /\ [][Next]_vars

\* ------------------------------------------------------------------------
\* The manager under a running clock: stories are created and sprints are
\* planned while up to MaxElapsed microseconds pass between the two clock
\* readings of a plan_sprint call.
\* ------------------------------------------------------------------------
Elapsed == 0..MaxElapsed

TimedPlanStep ==
    \E goal \in Goals, elapsed \in Elapsed : plan_sprint(goal, None, elapsed)

NextClock == CreateStep \/ TimedPlanStep

SpecClock == Init /\ [][NextClock]_vars

\* ------------------------------------------------------------------------
\* create_user_story run by concurrent callers. The method has no lock; a
\* caller can be preempted between building the story, which reads
\* len(self.backlog) for the id, and self.backlog.append(story), which is
\* one atomic step of the interpreter.
\* ------------------------------------------------------------------------
\* The first part of a call: the UserStory is built from the backlog as it is.
create_user_story_build(caller, title, description, acceptance_criteria, story_points, priority) ==
    /\ pending[caller] = None
    /\ Len(backlog) + Cardinality({c \in Callers : pending[c] # None}) < MaxStories
    /\ pending' = [pending EXCEPT ![caller] =
                      Some([story |-> NewStory(backlog, title, description,
                                               acceptance_criteria, story_points,
                                               priority),
                            args |-> <<title, description, acceptance_criteria,
                                       story_points, priority>>])]
    /\ interleaved' = (interleaved \/ \E c \in Callers \ {caller} : pending[c] # None)
    /\ UNCHANGED <<team_vars, ret, client_vars, server_vars>>

\* Variant: a story whose id is already in the backlog is not appended.
create_user_story_append_SkippingDuplicates(caller) ==
    /\ pending[caller] # None
    /\ LET call == Get(pending[caller])
       IN /\ backlog' = IF \E i \in 1..Len(backlog) : backlog[i].id = call.story.id
                        THEN backlog
                        ELSE Append(backlog, call.story)
          /\ ret' = [op |-> "create_user_story", args |-> call.args,
                     value |-> call.story, before |-> Fields]
    /\ create_calls' = create_calls + 1
    /\ pending' = [pending EXCEPT ![caller] = None]
    /\ UNCHANGED <<capacity_points, current_sprint, sprint_history, plan_calls,
                   auto_sprints, clock, interleaved, client_vars, server_vars>>

\* The second part of a call: the story is appended and returned.
create_user_story_append(caller) ==
    /\ pending[caller] # None
    /\ LET call == Get(pending[caller])
       IN /\ backlog' = Append(backlog, call.story)
          /\ ret' = [op |-> "create_user_story", args |-> call.args,
                     value |-> call.story, before |-> Fields]
    /\ create_calls' = create_calls + 1
    /\ pending' = [pending EXCEPT ![caller] = None]
    /\ UNCHANGED <<capacity_points, current_sprint, sprint_history, plan_calls,
                   auto_sprints, clock, interleaved, client_vars, server_vars>>

BuildStep ==
    \E caller \in Callers, title \in Titles, description \in Descriptions,
       acceptance_criteria \in CriteriaLists,
       story_points \in StoryPointArgs, priority \in PriorityArgs :
        create_user_story_build(caller, title, description, acceptance_criteria,
                                story_points, priority)

AppendStep == \E caller \in Callers : create_user_story_append(caller)

NextConcurrent == BuildStep \/ AppendStep

SpecConcurrent == Init /\ [][NextConcurrent]_vars

\* ------------------------------------------------------------------------
\* AG2MCPServer: the tools of the MCP server (ag2_mcp_server.py). The
\* agents are external: what an agent replies, or that it raises, is an
\* input. The event-loop timestamps stored with a conversation entry and a
\* memory record are left out.
\* ------------------------------------------------------------------------
MaxToolCalls == 3
MaxRounds == 2

DefaultContext == "general"
DefaultSystemMessage == "You are a helpful AI assistant."

ServerFields == [agents |-> agents, active_conversations |-> active_conversations,
                 memory_store |-> memory_store]

\* CallToolResult(content=[TextContent(type="text", text=...)], isError=...);
\* the text is kept as the tuple of the parts the f-string joins.
CallToolResult(text, isError) == [text |-> text, isError |-> isError]

\* A tool call returns without having waited: `before` is the fields when
\* it started.
ServerReturn(op, args, value, invoked) ==
    /\ ret' = [op |-> op, args |-> args, value |-> value,
               before |-> ServerFields, invoked |-> invoked]
    /\ tool_calls' = tool_calls + 1
    /\ running' = running

\* A tool call reaches an await on an agent and hands control back to the
\* event loop, which may run other tool calls before the reply arrives.
\* `frame` holds the call's arguments and local variables.
ServerAwait(frame) ==
    /\ running' = running \cup {[frame EXCEPT !.call = tool_calls + 1]}
    /\ tool_calls' = tool_calls + 1
    /\ ret' = ret

\* A waiting tool call gets its reply and waits for the next one.
ServerAwaitAgain(frame, next_frame) ==
    /\ running' = (running \ {frame}) \cup {next_frame}
    /\ UNCHANGED <<ret, tool_calls>>

\* A waiting tool call gets its reply and returns: `before` is the fields
\* when the call started.
ServerResume(frame, value, invoked) ==
    /\ ret' = [op |-> frame.op, args |-> frame.args, value |-> value,
               before |-> frame.before, invoked |-> invoked]
    /\ running' = running \ {frame}
    /\ tool_calls' = tool_calls

\* str(x)
PyStr(x) == IF x = None THEN "None" ELSE Get(x)

\* bool(x) of an optional string
Truthy(x) == x # None /\ Get(x) # ""

\* ConversableAgent(name=name, system_message=system_message, ...)
ConversableAgent(name, system_message) ==
    [name |-> name, system_message |-> system_message]

create_agent(name, system_message, constructed) ==
    /\ tool_calls < MaxToolCalls
    /\ IF constructed
       THEN /\ agents' = Put(agents, name, ConversableAgent(name, system_message))
            /\ ServerReturn("create_agent", <<name, system_message>>,
                            CallToolResult(<<"Successfully created agent '", name,
                                             "' with system message: ",
                                             system_message>>, FALSE), <<>>)
       ELSE /\ agents' = agents
            /\ ServerReturn("create_agent", <<name, system_message>>,
                            CallToolResult(<<"Error creating agent: ">>, TRUE), <<>>)
    /\ UNCHANGED <<team_vars, client_vars, caller_vars, active_conversations,
                   memory_store, saves>>

list_agents ==
    /\ tool_calls < MaxToolCalls
    /\ ServerReturn("list_agents", <<>>,
                    CallToolResult(<<"Available agents: ",
                                     IF DOMAIN agents # {} THEN DOMAIN agents
                                                           ELSE "None">>,
                                   FALSE), <<>>)
    /\ UNCHANGED <<team_vars, client_vars, caller_vars, agents,
                   active_conversations, memory_store, saves>>

\* What ends the wait for an agent's reply: the agent returns a string,
\* returns None, or raises an Exception, or the waiting call is cancelled
\* (CancelledError, which `except Exception` does not catch).
Replies == {[raised |-> FALSE, cancelled |-> FALSE, response |-> Some("R1")],
            [raised |-> FALSE, cancelled |-> FALSE, response |-> None],
            [raised |-> TRUE, cancelled |-> FALSE, response |-> None],
            [raised |-> TRUE, cancelled |-> TRUE, response |-> None]}

\* What a call that an Exception or a cancellation ended returns: the error
\* result of its except clause, or nothing (the CancelledError propagates).
Failure(reply, text) == IF reply.cancelled THEN None ELSE CallToolResult(text, TRUE)

\* f"{agent_name}-{recipient_name}" if recipient_name else agent_name
SendKey(agent_name, recipient_name) ==
    IF Truthy(recipient_name) THEN agent_name \o "-" \o Get(recipient_name)
                              ELSE agent_name

\* The method of the sender that send_message awaits.
SendMethod(registry, recipient_name) ==
    IF Truthy(recipient_name) /\ Get(recipient_name) \in DOMAIN registry
    THEN "a_send_message"
    ELSE "a_generate_reply"

\* send_message up to its await: the sender is looked up, the method to
\* await is chosen from the agents registered now, and the call waits.
send_message(agent_name, message, recipient_name) ==
    /\ tool_calls < MaxToolCalls
    /\ IF agent_name \notin DOMAIN agents
       THEN ServerReturn("send_message", <<agent_name, message, recipient_name>>,
                         CallToolResult(<<"Agent '", agent_name,
                                          "' not found. Available agents: ",
                                          DOMAIN agents>>, TRUE), <<>>)
       ELSE ServerAwait([op |-> "send_message", call |-> 0,
                         args |-> <<agent_name, message, recipient_name>>,
                         before |-> ServerFields,
                         invoked |-> <<[agent |-> agent_name,
                                        method |-> SendMethod(agents, recipient_name)]>>])
    /\ UNCHANGED <<team_vars, client_vars, caller_vars, agents, active_conversations,
                   memory_store, saves>>

\* send_message from its await on: the entry is appended to the conversation
\* as it is now and the response returned, or the error result is returned.
send_message_resumed(frame, reply) ==
    /\ frame \in running /\ frame.op = "send_message"
    /\ LET agent_name == frame.args[1]
           message == frame.args[2]
           recipient_name == frame.args[3]
           conv_key == SendKey(agent_name, recipient_name)
           entries == IF conv_key \in DOMAIN active_conversations
                      THEN active_conversations[conv_key]
                      ELSE <<>>
           entry == [sender |-> agent_name, recipient |-> recipient_name,
                     message |-> message, response |-> PyStr(reply.response)]
       IN IF reply.raised
          THEN /\ active_conversations' = active_conversations
               /\ ServerResume(frame, Failure(reply, <<"Error sending message: ">>),
                               frame.invoked)
          ELSE /\ active_conversations' =
                      Put(active_conversations, conv_key, Append(entries, entry))
               /\ ServerResume(frame, CallToolResult(<<PyStr(reply.response)>>, FALSE),
                               frame.invoked)
    /\ UNCHANGED <<team_vars, client_vars, caller_vars, agents, memory_store, saves>>

\* Variant: only the first participant is looked up.
MissingAgents_FirstOnly(registry, participant_names) ==
    IF participant_names # <<>> /\ participant_names[1] \notin DOMAIN registry
    THEN <<participant_names[1]>>
    ELSE <<>>

\* [name for name in participant_names if name not in self.agents]
MissingAgents(registry, participant_names) ==
    SelectSeq(participant_names, LAMBDA name : name \notin DOMAIN registry)

\* '-'.join(names)
RECURSIVE Join(_)
Join(names) ==
    IF names = <<>> THEN ""
    ELSE IF Len(names) = 1 THEN names[1]
    ELSE names[1] \o "-" \o Join(Tail(names))

\* f"group-{'-'.join(participant_names)}"
GroupKey(participant_names) == "group-" \o Join(participant_names)

\* The agent asked in the k-th pass of the two nested loops.
SpeakerAt(participant_names, k) ==
    participant_names[((k - 1) % Len(participant_names)) + 1]

\* The entry the k-th pass appends to conversation_log.
LogEntry(participant_names, k, current_message, response) ==
    [round |-> ((k - 1) \div Len(participant_names)) + 1,
     agent |-> SpeakerAt(participant_names, k),
     message |-> current_message,
     response |-> PyStr(response)]

\* How many times the two nested loops ask an agent: range(max_rounds) is
\* empty for max_rounds <= 0.
Asks(participant_names, max_rounds) ==
    IF max_rounds > 0 THEN max_rounds * Len(participant_names) ELSE 0

\* run_group_chat up to its first await: the participants are looked up; with
\* agents to ask the call asks the first one and waits, with none (no
\* participants, or max_rounds zero or negative) it stores the empty log and
\* returns.
run_group_chat(participant_names, initial_message, max_rounds) ==
    /\ tool_calls < MaxToolCalls
    /\ LET missing_agents == MissingAgents(agents, participant_names)
           args == <<participant_names, initial_message, max_rounds>>
       IN IF missing_agents # <<>>
          THEN /\ active_conversations' = active_conversations
               /\ ServerReturn("run_group_chat", args,
                               CallToolResult(<<"Missing agents: ", missing_agents,
                                                ". Available: ", DOMAIN agents>>, TRUE),
                               <<>>)
          ELSE IF Asks(participant_names, max_rounds) = 0
          THEN /\ active_conversations' =
                      Put(active_conversations, GroupKey(participant_names), <<>>)
               /\ ServerReturn("run_group_chat", args,
                               CallToolResult(<<"Group chat completed:", <<>>>>, FALSE),
                               <<>>)
          ELSE /\ active_conversations' = active_conversations
               /\ ServerAwait([op |-> "run_group_chat", call |-> 0, args |-> args,
                               before |-> ServerFields,
                               invoked |-> <<[agent |-> participant_names[1],
                                              method |-> "a_generate_reply"]>>,
                               conversation_log |-> <<>>,
                               current_message |-> initial_message])
    /\ UNCHANGED <<team_vars, client_vars, caller_vars, agents, memory_store, saves>>

\* run_group_chat from an await on: the reply is logged and becomes the
\* current message; the next agent is asked, or after the last one the log
\* is stored and the call returns. A reply that raises ends the call with
\* nothing stored.
run_group_chat_resumed(frame, reply) ==
    /\ frame \in running /\ frame.op = "run_group_chat"
    /\ LET participant_names == frame.args[1]
           asks == Asks(participant_names, frame.args[3])
           k == Len(frame.invoked)
           conversation_log ==
               Append(frame.conversation_log,
                      LogEntry(participant_names, k, frame.current_message,
                               reply.response))
       IN IF reply.raised
          THEN /\ active_conversations' = active_conversations
               /\ ServerResume(frame, Failure(reply, <<"Error running group chat: ">>),
                               frame.invoked)
          ELSE IF k < asks
          THEN /\ active_conversations' = active_conversations
               /\ ServerAwaitAgain(frame,
                      [frame EXCEPT
                         !.invoked = Append(@, [agent |-> SpeakerAt(participant_names,
                                                                    k + 1),
                                                method |-> "a_generate_reply"]),
                         !.conversation_log = conversation_log,
                         !.current_message = PyStr(reply.response)])
          ELSE /\ active_conversations' =
                      Put(active_conversations, GroupKey(participant_names),
                          conversation_log)
               /\ ServerResume(frame,
                               CallToolResult(<<"Group chat completed:",
                                                conversation_log>>, FALSE),
                               frame.invoked)
    /\ UNCHANGED <<team_vars, client_vars, caller_vars, agents, memory_store, saves>>

\* f"{context}:{key}"
MemoryKey(context, key) == context \o ":" \o key

\* The context a call without a context argument uses.
EffectiveContext(context) == IF context = None THEN DefaultContext ELSE Get(context)

save_memory(key, content, context) ==
    /\ tool_calls < MaxToolCalls
    /\ LET memory_key == MemoryKey(EffectiveContext(context), key)
       IN /\ memory_store' = Put(memory_store, memory_key,
                                 [content |-> content,
                                  context |-> EffectiveContext(context)])
          /\ ServerReturn("save_memory", <<key, content, context>>,
                          CallToolResult(<<"Saved to memory: ", memory_key>>, FALSE),
                          <<>>)
    /\ saves' = Append(saves, [key |-> key, content |-> content,
                               context |-> EffectiveContext(context)])
    /\ UNCHANGED <<team_vars, client_vars, caller_vars, agents, active_conversations>>

retrieve_memory(key, context) ==
    /\ tool_calls < MaxToolCalls
    /\ LET memory_key == MemoryKey(EffectiveContext(context), key)
       IN IF memory_key \in DOMAIN memory_store
          THEN ServerReturn("retrieve_memory", <<key, context>>,
                            CallToolResult(<<"Retrieved from memory: ",
                                             memory_store[memory_key]>>, FALSE), <<>>)
          ELSE ServerReturn("retrieve_memory", <<key, context>>,
                            CallToolResult(<<"No content found for key: ",
                                             memory_key>>, FALSE), <<>>)
    /\ UNCHANGED <<team_vars, client_vars, caller_vars, agents, active_conversations,
                   memory_store, saves>>

AgentNames == {"alice", "bob"}
SenderNames == AgentNames \cup {"ghost"}
SystemMessages == {DefaultSystemMessage}
Messages == {"M1"}
RecipientArgs == {None, Some("bob"), Some("ghost")}
ParticipantLists == SeqsUpTo(SenderNames, 2)
MaxRoundsArgs == {-1} \cup (0..MaxRounds)
MemoryKeys == {"c", "b:c"}
MemoryContents == {"x", "y"}
ContextArgs == {None, Some("a"), Some("a:b")}

CreateAgentStep ==
    \E name \in AgentNames, system_message \in SystemMessages,
       constructed \in BOOLEAN :
        create_agent(name, system_message, constructed)

ListAgentsStep == list_agents

SendStep ==
    \E agent_name \in SenderNames, message \in Messages,
       recipient_name \in RecipientArgs :
        send_message(agent_name, message, recipient_name)

SendResumedStep ==
    \E frame \in running, reply \in Replies : send_message_resumed(frame, reply)

GroupChatResumedStep ==
    \E frame \in running, reply \in Replies : run_group_chat_resumed(frame, reply)

GroupChatStep ==
    \E participant_names \in ParticipantLists, initial_message \in Messages,
       max_rounds \in MaxRoundsArgs :
        run_group_chat(participant_names, initial_message, max_rounds)

SaveStep ==
    \E key \in MemoryKeys, content \in MemoryContents, context \in ContextArgs :
        save_memory(key, content, context)

RetrieveStep ==
    \E key \in MemoryKeys, context \in ContextArgs : retrieve_memory(key, context)

NextServer ==
    \/ CreateAgentStep
    \/ ListAgentsStep
    \/ SendStep
    \/ SendResumedStep
    \/ GroupChatStep
    \/ GroupChatResumedStep
    \/ SaveStep
    \/ RetrieveStep

SpecServer == Init /\ [][NextServer]_vars

\* ------------------------------------------------------------------------
\* The planner on its own: plan_sprint auto-selecting from any backlog of up
\* to MaxBacklog stories that create_user_story calls followed by at most one
\* explicit plan_sprint call produce.
\* ------------------------------------------------------------------------
MaxBacklog == 3
PlannerPoints == {-5, 0, 10, 15, 20, 30}
PlannerPriorities == {1, 2, 3}
PlannerCapacities == {-5, 25, 40}
PlannerTitle == "Story"
PlannerGoal == "G1"

\* The backlog after create_user_story calls with the given <<points, priority>> pairs.
RECURSIVE CreateAll(_)
CreateAll(pairs) ==
    IF pairs = <<>> THEN <<>>
    ELSE LET bl == CreateAll(SubSeq(pairs, 1, Len(pairs) - 1))
             last == pairs[Len(pairs)]
         IN Append(bl, NewStory(bl, PlannerTitle, "As a user", <<"AC1">>,
                                Some(last[1]), Some(last[2])))

\* The ids of the stories at the positions in `chosen`, in backlog order.
RECURSIVE IdsAt(_, _, _)
IdsAt(bl, chosen, i) ==
    IF i > Len(bl) THEN <<>>
    ELSE (IF i \in chosen THEN <<bl[i].id>> ELSE <<>>) \o IdsAt(bl, chosen, i + 1)

InitPlanner ==
    /\ capacity_points \in PlannerCapacities
    /\ sprint_history = <<>>
    /\ auto_sprints = <<>>
    /\ config = None
    /\ azure_credentials = None
    /\ clock = DateTime(0, 0)
    /\ NoCallers
    /\ NoServer
    /\ \E pairs \in SeqsUpTo(PlannerPoints \X PlannerPriorities, MaxBacklog) :
       \E chosen \in SUBSET (1..Len(pairs)) :
          LET bl == CreateAll(pairs)
              listed == IdsAt(bl, chosen, 1)
              sprint_data == SprintData(<<>>, PlannerGoal, listed, capacity_points,
                                        clock, clock)
              n == Len(pairs)
          IN /\ create_calls = n
             /\ plan_calls = IF chosen = {} THEN 0 ELSE 1
             /\ backlog = UpdateStatuses(bl, listed)
             /\ current_sprint = IF chosen = {} THEN None ELSE Some(sprint_data)
             /\ ret = IF chosen # {}
                      THEN [op |-> "plan_sprint",
                            args |-> <<PlannerGoal, Some(listed)>>,
                            value |-> sprint_data,
                            before |-> [backlog |-> bl, sprint_history |-> <<>>]]
                      ELSE IF n > 0
                      THEN [op |-> "create_user_story",
                            args |-> <<PlannerTitle, "As a user", <<"AC1">>,
                                       Some(pairs[n][1]), Some(pairs[n][2])>>,
                            value |-> bl[n],
                            before |-> [backlog |-> SubSeq(bl, 1, n - 1),
                                        current_sprint |-> None,
                                        sprint_history |-> <<>>]]
                      ELSE [op |-> "__init__", args |-> <<>>, value |-> None,
                            before |-> [backlog |-> <<>>, current_sprint |-> None,
                                        sprint_history |-> <<>>]]

NextPlanner == plan_sprint(PlannerGoal, None, 0)

SpecPlanner == InitPlanner /\ [][NextPlanner]_vars

\* ------------------------------------------------------------------------
\* WindowsClippyMCPClient: initialize_azure_auth and get_llm_api_key
\* ------------------------------------------------------------------------
\* A dict is a function on its keys: `k in d` is k \in DOMAIN d.
ClippyMCPConfig(azure_key_vault, entra_id, shared_llm_keys, llm_key_vault_mapping) ==
    [azure_key_vault |-> azure_key_vault,
     entra_id |-> entra_id,
     shared_llm_keys |-> shared_llm_keys,
     llm_key_vault_mapping |-> llm_key_vault_mapping]

\* The credential initialize_azure_auth builds: DefaultAzureCredential with a
\* managed identity, else ClientSecretCredential with a non-empty client
\* secret, else none. When the azure packages are missing the import block
\* leaves both class names unbound and building either one raises
\* UnboundLocalError, which the `except ImportError` clause does not catch.
AzureAuth(cfg, credentials, imported) ==
    IF cfg.entra_id = None
    THEN [credentials |-> credentials, raised |-> FALSE]
    ELSE IF cfg.azure_key_vault # None /\ Get(cfg.azure_key_vault).use_managed_identity
    THEN IF imported
         THEN [credentials |-> Some("DefaultAzureCredential"), raised |-> FALSE]
         ELSE [credentials |-> credentials, raised |-> TRUE]
    ELSE IF Get(cfg.entra_id).client_secret \notin {None, Some("")}
    THEN IF imported
         THEN [credentials |-> Some("ClientSecretCredential"), raised |-> FALSE]
         ELSE [credentials |-> credentials, raised |-> TRUE]
    ELSE [credentials |-> credentials, raised |-> FALSE]

initialize_azure_auth(imported) ==
    /\ config # None
    /\ LET auth == AzureAuth(Get(config), azure_credentials, imported)
       IN /\ azure_credentials' = auth.credentials
          /\ ret' = [op |-> "initialize_azure_auth", args |-> <<>>,
                     value |-> None, raised |-> auth.raised]
    /\ UNCHANGED <<team_vars, caller_vars, server_vars, config>>

\* The value the vault holds under a secret name.
VaultSecret(secret_name) == "value of " \o secret_name

\* client.get_secret(secret_name) of azure.keyvault.secrets.SecretClient, the
\* class the method imports: a plain method, which returns the secret
\* itself, not an awaitable, or raises. `lookup` is what the vault does if it
\* is asked: "found" (get_secret returns the secret), "import_error" (the
\* azure packages are missing, so no client is built) or "service_error"
\* (get_secret raises an Exception).
GetSecret(secret_name, lookup) ==
    IF lookup = "found"
    THEN [raised |-> FALSE, awaitable |-> FALSE, value |-> Some(VaultSecret(secret_name))]
    ELSE [raised |-> TRUE, awaitable |-> FALSE, value |-> None]

\* secret = await client.get_secret(secret_name); return secret.value
\* inside the try: awaiting what is not awaitable raises TypeError, and every
\* Exception is caught, after which the method returns None.
AwaitedSecretValue(answer) ==
    IF answer.raised \/ ~answer.awaitable THEN None ELSE answer.value

\* Variant: a service with a vault mapping is looked up in the vault first.
LlmApiKey_VaultFirst(cfg, credentials, service_name, lookup) ==
    IF /\ cfg.azure_key_vault # None
       /\ service_name \in DOMAIN cfg.llm_key_vault_mapping
       /\ credentials # None
    THEN [value |-> AwaitedSecretValue(
                        GetSecret(cfg.llm_key_vault_mapping[service_name], lookup)),
          vault_used |-> lookup # "import_error", raised |-> FALSE]
    ELSE IF service_name \in DOMAIN cfg.shared_llm_keys
    THEN [value |-> Some(cfg.shared_llm_keys[service_name]),
          vault_used |-> FALSE, raised |-> FALSE]
    ELSE [value |-> None, vault_used |-> FALSE, raised |-> FALSE]

\* The result of get_llm_api_key. The shared key is returned if there is
\* one. Otherwise, with a vault configuration, a mapping for the service and
\* credentials, the vault is asked (unless the azure packages are missing);
\* whatever it does, the try block ends in a caught exception, because the
\* secret get_secret returns cannot be awaited, and the call returns None.
LlmApiKey(cfg, credentials, service_name, lookup) ==
    IF service_name \in DOMAIN cfg.shared_llm_keys
    THEN [value |-> Some(cfg.shared_llm_keys[service_name]),
          vault_used |-> FALSE, raised |-> FALSE]
    ELSE IF /\ cfg.azure_key_vault # None
            /\ service_name \in DOMAIN cfg.llm_key_vault_mapping
            /\ credentials # None
    THEN [value |-> AwaitedSecretValue(
                        GetSecret(cfg.llm_key_vault_mapping[service_name], lookup)),
          vault_used |-> lookup # "import_error", raised |-> FALSE]
    ELSE [value |-> None, vault_used |-> FALSE, raised |-> FALSE]

\* No step of the call yields to the event loop: the only await, on what
\* get_secret returned, raises before suspending. The call is one step.
get_llm_api_key(service_name, lookup) ==
    /\ config # None
    /\ LET result == LlmApiKey(Get(config), azure_credentials, service_name, lookup)
       IN ret' = [op |-> "get_llm_api_key", args |-> <<service_name>>,
                  lookup |-> lookup, value |-> result.value,
                  vault_used |-> result.vault_used, raised |-> result.raised]
    /\ UNCHANGED <<team_vars, caller_vars, server_vars, client_vars>>

Services == {"openai", "anthropic"}
ServiceNames == Services \cup {"nonexistent"}
SharedKeyDicts == {[s \in S |-> "key of " \o s] : S \in SUBSET Services}
VaultMappings == {[s \in S |-> s \o "-secret"] : S \in SUBSET Services}
KeyVaultConfigs ==
    {None} \cup {Some([vault_url |-> "https://vault", use_managed_identity |-> m]) :
                    m \in BOOLEAN}
EntraIdConfigs ==
    {None} \cup {Some([client_secret |-> c]) : c \in {None, Some(""), Some("secret")}}
Lookups == {"found", "import_error", "service_error"}

InitClient ==
    /\ capacity_points = DefaultCapacityPoints
    /\ backlog = <<>>
    /\ current_sprint = None
    /\ sprint_history = <<>>
    /\ create_calls = 0
    /\ plan_calls = 0
    /\ auto_sprints = <<>>
    /\ \E azure_key_vault \in KeyVaultConfigs, entra_id \in EntraIdConfigs,
          shared_llm_keys \in SharedKeyDicts,
          llm_key_vault_mapping \in VaultMappings :
          config = Some(ClippyMCPConfig(azure_key_vault, entra_id,
                                        shared_llm_keys, llm_key_vault_mapping))
    /\ azure_credentials = None
    /\ clock = DateTime(0, 0)
    /\ NoCallers
    /\ NoServer
    /\ ret = [op |-> "__init__", args |-> <<config>>, value |-> None]

AuthStep == \E imported \in BOOLEAN : initialize_azure_auth(imported)

KeyStep ==
    \E service_name \in ServiceNames, lookup \in Lookups :
        get_llm_api_key(service_name, lookup)

NextClient == AuthStep \/ KeyStep

SpecClient == InitClient /\ [][NextClient]_vars

\* ------------------------------------------------------------------------
\* Properties
\* ------------------------------------------------------------------------
Planned == ret.op = "plan_sprint"
AutoPlanned == Planned /\ ret.args[2] = None
ExplicitPlanned == Planned /\ ret.args[2] # None
Created == ret.op = "create_user_story"
Exported == ret.op = "export_sprint_history"
Ran == ret.op = "run_development_sprint"
StatusRead == ret.op = "get_team_status"

\* The set of the ids in a list.
IdsIn(list) == {list[j] : j \in 1..Len(list)}

\* The sum of the story points of the stories of bl from position i on whose
\* ids are in `ids`.
RECURSIVE PointsOf(_, _, _)
PointsOf(bl, ids, i) ==
    IF i > Len(bl) THEN 0
    ELSE (IF bl[i].id \in ids THEN bl[i].story_points ELSE 0) + PointsOf(bl, ids, i + 1)

\* The identifiers as the specification writes them.
ExpectedStoryIds == <<"US-001", "US-002", "US-003", "US-004", "US-005">>
ExpectedSprintIds == <<"Sprint-1", "Sprint-2", "Sprint-3", "Sprint-4", "Sprint-5">>

\* C1: the k-th create_user_story call returns the id US-k (k zero-padded to
\* three digits); in every state the story at backlog position i has id US-i,
\* and the ids of the backlog are pairwise distinct.
C1_StoryIdsFollowCreationOrder ==
    /\ Created => ret.value.id = ExpectedStoryIds[create_calls]
    /\ \A i \in 1..Len(backlog) : backlog[i].id = ExpectedStoryIds[i]
    /\ \A i, j \in 1..Len(backlog) : i # j => backlog[i].id # backlog[j].id

\* The second story is created after a sprint was planned and one was run.
C1_Witness ==
    /\ Created /\ create_calls = 2 /\ ret.value.id = "US-002"
    /\ plan_calls > 0 /\ Len(sprint_history) > 0
    /\ backlog[1].status = "sprint_backlog"

\* C2 as stated: whatever the capacity, the points of the auto-selected
\* stories sum to at most the capacity.
C2_AutoSelectionWithinAnyCapacity ==
    AutoPlanned =>
        PointsOf(backlog, IdsIn(ret.value.stories), 1) <= capacity_points

\* C2, amended: the points of the auto-selected stories sum to at most the
\* capacity when the capacity is not negative or at least one story is
\* selected (an empty selection sums to 0, which exceeds a negative capacity).
C2_AutoSelectionWithinCapacity ==
    AutoPlanned /\ (capacity_points >= 0 \/ ret.value.stories # <<>>) =>
        PointsOf(backlog, IdsIn(ret.value.stories), 1) <= capacity_points

\* Auto-selection fills the capacity of 40 exactly with two of three stories
\* and leaves the third, which no longer fits, in the backlog.
C2_Witness ==
    /\ AutoPlanned /\ capacity_points = 40
    /\ Len(backlog) = 3 /\ Len(ret.value.stories) = 2
    /\ PointsOf(backlog, IdsIn(ret.value.stories), 1) = 40
    /\ \E i \in 1..3 : backlog[i].status = "backlog" /\ backlog[i].story_points > 0

\* The reference greedy pass: the stories in status backlog, ordered by
\* priority ascending (equal priorities in backlog order), walked once.
EligibleStories(bl) ==
    LET IsEligible(story) == story.status = "backlog" IN SelectSeq(bl, IsEligible)

RECURSIVE ByPriorityFrom(_, _, _)
ByPriorityFrom(stories, p, highest) ==
    IF p > highest THEN <<>>
    ELSE LET HasPriority(story) == story.priority = p
         IN SelectSeq(stories, HasPriority) \o ByPriorityFrom(stories, p + 1, highest)

PrioritiesOf(stories) == {stories[i].priority : i \in 1..Len(stories)}
Lowest(S) == CHOOSE x \in S : \A y \in S : x <= y
Highest(S) == CHOOSE x \in S : \A y \in S : y <= x

ByPriority(stories) ==
    IF stories = <<>> THEN <<>>
    ELSE ByPriorityFrom(stories, Lowest(PrioritiesOf(stories)),
                        Highest(PrioritiesOf(stories)))

RECURSIVE GreedyWalk(_, _)
GreedyWalk(stories, available) ==
    IF stories = <<>> THEN <<>>
    ELSE IF stories[1].story_points <= available
    THEN <<stories[1].id>> \o GreedyWalk(Tail(stories), available - stories[1].story_points)
    ELSE GreedyWalk(Tail(stories), available)

ReferenceSelection(bl, capacity) == GreedyWalk(ByPriority(EligibleStories(bl)), capacity)

\* The backlog of the planning test: points 10, 15, 20 with priorities 1, 2, 3.
IsTestBacklog(bl) ==
    /\ Len(bl) = 3
    /\ \A i \in 1..3 : bl[i].status = "backlog" /\ bl[i].priority = i
    /\ bl[1].story_points = 10 /\ bl[2].story_points = 15 /\ bl[3].story_points = 20

\* C3: an auto-selecting plan_sprint returns exactly the ids of the reference
\* greedy pass over the backlog it started from, in walk order; for points
\* 10, 15, 20 with priorities 1, 2, 3 and capacity 40 these are the first two
\* stories, and the third is not selected.
C3_AutoSelectionIsGreedyPass ==
    AutoPlanned =>
        /\ ret.value.stories = ReferenceSelection(ret.before.backlog, capacity_points)
        /\ IsTestBacklog(ret.before.backlog) /\ capacity_points = 40 =>
               /\ ret.value.stories = <<"US-001", "US-002">>
               /\ PointsOf(backlog, IdsIn(ret.value.stories), 1) = 25
               /\ backlog[3].status = "backlog"

C3_Witness ==
    /\ AutoPlanned /\ capacity_points = 40 /\ IsTestBacklog(ret.before.backlog)
    /\ ret.value.stories = <<"US-001", "US-002">>

\* C4: after a plan_sprint call every story whose id is in the returned
\* stories list has status sprint_backlog and every other story has the
\* status it had before the call.
C4_PlanMovesExactlyTheListedStories ==
    Planned =>
        /\ Len(backlog) = Len(ret.before.backlog)
        /\ \A i \in 1..Len(backlog) :
              backlog[i].status =
                  IF backlog[i].id \in IdsIn(ret.value.stories)
                  THEN "sprint_backlog"
                  ELSE ret.before.backlog[i].status

\* One story was selected and one, still in the backlog, was not.
C4_Witness ==
    /\ AutoPlanned /\ Len(backlog) = 2
    /\ \E i, j \in 1..2 :
          /\ backlog[i].id \in IdsIn(ret.value.stories)
          /\ ret.before.backlog[i].status = "backlog"
          /\ backlog[i].status = "sprint_backlog"
          /\ backlog[j].id \notin IdsIn(ret.value.stories)
          /\ backlog[j].status = "backlog"

\* C5: a story that is in status sprint_backlog when an auto-selecting
\* plan_sprint call starts is not in the list the call returns, and the lists
\* of any two auto-selected sprints are disjoint.
C5_PlannedStoriesAreNotReselected ==
    /\ AutoPlanned =>
          \A i \in 1..Len(ret.before.backlog) :
              ret.before.backlog[i].status = "sprint_backlog" =>
                  ret.before.backlog[i].id \notin IdsIn(ret.value.stories)
    /\ \A a, b \in 1..Len(auto_sprints) :
          a < b => IdsIn(auto_sprints[a]) \cap IdsIn(auto_sprints[b]) = {}

\* A second auto-selection runs while a story that would fit the capacity is
\* already in a sprint, and selects another story.
C5_Witness ==
    /\ AutoPlanned /\ Len(auto_sprints) = 2
    /\ auto_sprints[1] # <<>> /\ auto_sprints[2] # <<>>
    /\ \E i \in 1..Len(ret.before.backlog) :
          /\ ret.before.backlog[i].status = "sprint_backlog"
          /\ ret.before.backlog[i].story_points <= capacity_points

\* The ids of the stories of a backlog.
BacklogIds(bl) == {bl[i].id : i \in 1..Len(bl)}

\* C6: plan_sprint with an explicit list returns a sprint whose stories list
\* is the given list, element for element, whatever the points and statuses
\* of the listed stories, and every listed story of the backlog ends in
\* status sprint_backlog.
C6_ExplicitListIsUsedVerbatim ==
    ExplicitPlanned =>
        LET given == Get(ret.args[2])
        IN /\ Len(ret.value.stories) = Len(given)
           /\ \A j \in 1..Len(given) : ret.value.stories[j] = given[j]
           /\ \A i \in 1..Len(backlog) :
                 backlog[i].id \in IdsIn(given) => backlog[i].status = "sprint_backlog"

\* The list names twice a story that was already in a sprint and whose points
\* exceed the capacity.
C6_Witness ==
    /\ ExplicitPlanned /\ Len(ret.before.backlog) > 0
    /\ ret.value.stories = <<"US-001", "US-001">>
    /\ ret.before.backlog[1].status = "sprint_backlog"
    /\ backlog[1].story_points > capacity_points
    /\ backlog[1].status = "sprint_backlog"

\* C7: the N-th plan_sprint call made on a manager returns the sprint id
\* Sprint-N.
C7_NthPlanReturnsSprintN ==
    Planned => ret.value.id = ExpectedSprintIds[plan_calls]

\* C8: the exported document, read back, has one backlog entry per story, the
\* i-th with the id, title and status of the i-th story, as many
\* sprint_history entries as the manager holds, and these two lengths as
\* team_config.backlog_size and team_config.sprint_history_count; the export
\* leaves the manager's fields as they were.
C8_ExportReproducesBacklogAndCounts ==
    Exported =>
        LET doc == ret.written
        IN /\ Len(doc.backlog) = Len(backlog)
           /\ \A i \in 1..Len(backlog) :
                 /\ doc.backlog[i].id = backlog[i].id
                 /\ doc.backlog[i].title = backlog[i].title
                 /\ doc.backlog[i].status = backlog[i].status
           /\ Len(doc.sprint_history) = Len(sprint_history)
           /\ doc.team_config.sprint_history_count = Len(sprint_history)
           /\ doc.team_config.backlog_size = Len(backlog)
           /\ ret.before = Fields

\* The export is of two stories with different titles and statuses, a planned
\* sprint and one recorded run.
C8_Witness ==
    /\ Exported /\ Len(backlog) = 2 /\ Len(sprint_history) = 1
    /\ current_sprint # None
    /\ backlog[1].status = "sprint_backlog" /\ backlog[2].status = "backlog"
    /\ backlog[1].title # backlog[2].title
    /\ ret.written.backlog[1].status = "sprint_backlog"

\* C9: create_user_story can be called with any arguments; it appends one
\* story, in status backlog and unassigned, with the given field values
\* (story_points 5 and priority 3 when omitted), and leaves the existing
\* stories, the current sprint and the sprint history unchanged.
C9_CreateAppendsOneStory ==
    /\ Len(backlog) < MaxStories =>
          \A title \in Titles, description \in Descriptions,
             acceptance_criteria \in CriteriaLists,
             story_points \in StoryPointArgs, priority \in PriorityArgs :
              ENABLED create_user_story(title, description, acceptance_criteria,
                                        story_points, priority)
    /\ Created =>
          LET n == Len(ret.before.backlog)
              story == backlog[n + 1]
          IN /\ Len(backlog) = n + 1
             /\ SubSeq(backlog, 1, n) = ret.before.backlog
             /\ story = ret.value
             /\ story.status = "backlog"
             /\ story.assigned_to = None
             /\ story.title = ret.args[1]
             /\ story.description = ret.args[2]
             /\ story.acceptance_criteria = ret.args[3]
             /\ story.story_points = (IF ret.args[4] = None THEN 5 ELSE Get(ret.args[4]))
             /\ story.priority = (IF ret.args[5] = None THEN 3 ELSE Get(ret.args[5]))
             /\ current_sprint = ret.before.current_sprint
             /\ sprint_history = ret.before.sprint_history

\* A story is created with both defaults behind a story that is in a sprint,
\* with a sprint planned and a run recorded.
C9_Witness ==
    /\ Created /\ Len(backlog) = 2
    /\ ret.args[4] = None /\ ret.args[5] = None
    /\ backlog[2].story_points = 5 /\ backlog[2].priority = 3
    /\ backlog[1].status = "sprint_backlog"
    /\ current_sprint # None /\ Len(sprint_history) = 1

\* C10: plan_sprint with an explicit list that holds ids of no story returns
\* a sprint whose stories list still holds them; the stories the list names
\* end in status sprint_backlog, and every other story is as it was.
C10_UnknownIdsAreKeptAndIgnored ==
    ExplicitPlanned /\ ~(IdsIn(Get(ret.args[2])) \subseteq BacklogIds(ret.before.backlog)) =>
        /\ ret.value.stories = Get(ret.args[2])
        /\ current_sprint = Some(ret.value)
        /\ Len(backlog) = Len(ret.before.backlog)
        /\ \A i \in 1..Len(backlog) :
              backlog[i] =
                  IF backlog[i].id \in IdsIn(ret.value.stories)
                  THEN [ret.before.backlog[i] EXCEPT !.status = "sprint_backlog"]
                  ELSE ret.before.backlog[i]

\* The list names an unknown id and then the first story, which moves to the
\* sprint while the second story stays in the backlog.
C10_Witness ==
    /\ ExplicitPlanned /\ Len(backlog) = 2
    /\ ret.value.stories = <<UnknownId, "US-001">>
    /\ ret.before.backlog[1].status = "backlog"
    /\ backlog[1].status = "sprint_backlog"
    /\ backlog[2].status = "backlog"

\* C11: after a plan_sprint call the current sprint is the record the call
\* returned; the sprint history is as it was before the call (the sprint that
\* was replaced is not added to it), so a manager on which no sprint has run
\* still reports a sprint_history_count of 0; the backlog has the same
\* stories at the same positions.
C11_PlanReplacesCurrentSprintOnly ==
    Planned =>
        /\ current_sprint = Some(ret.value)
        /\ sprint_history = ret.before.sprint_history
        /\ ret.before.sprint_history = <<>> =>
               TeamStatus(current_sprint, backlog, sprint_history,
                          capacity_points).sprint_history_count = 0
        /\ Len(backlog) = Len(ret.before.backlog)
        /\ \A i \in 1..Len(backlog) : backlog[i].id = ret.before.backlog[i].id

\* The second plan on a manager with nothing run replaces the first sprint by
\* one with another goal and moves a story into it.
C11_Witness ==
    /\ Planned /\ plan_calls = 2 /\ sprint_history = <<>>
    /\ Get(current_sprint).goal = "G2" /\ Get(current_sprint).stories # <<>>
    /\ Len(backlog) = 2
    /\ \E i \in 1..2 : /\ ret.before.backlog[i].status = "backlog"
                        /\ backlog[i].status = "sprint_backlog"

\* C12: the current sprint is absent exactly when plan_sprint was never
\* called; when present its phase is PLANNING and its capacity the configured
\* capacity_points; after a plan_sprint call its goal is the goal passed to
\* that call, and every other call leaves the current sprint, its phase
\* included, as it found it.
C12_CurrentSprintStaysInPlanning ==
    /\ (current_sprint = None) <=> (plan_calls = 0)
    /\ current_sprint # None =>
          /\ Get(current_sprint).phase = "PLANNING"
          /\ Get(current_sprint).capacity = capacity_points
    /\ Planned => Get(current_sprint).goal = ret.args[1]
    /\ (Created \/ Ran \/ StatusRead \/ Exported) =>
          current_sprint = ret.before.current_sprint

\* A run that completed is recorded while a sprint planned with goal G2 is
\* the current one.
C12_Witness ==
    /\ Ran /\ ret.value.phase = "COMPLETE"
    /\ current_sprint # None /\ plan_calls = 2
    /\ Get(current_sprint).goal = "G2"
    /\ Get(current_sprint).phase = "PLANNING"

\* C13: get_team_status returns the number of create_user_story calls made
\* so far as backlog_size, the length of the sprint history as
\* sprint_history_count, the current sprint the manager holds, and a
\* team_composition of exactly the six roles; the call leaves the manager's
\* fields as they were.
C13_StatusReportsTheFields ==
    StatusRead =>
        /\ ret.value.backlog_size = create_calls
        /\ ret.value.sprint_history_count = Len(sprint_history)
        /\ ret.value.current_sprint = current_sprint
        /\ DOMAIN ret.value.team_composition =
              {"product_owner", "tech_architect", "senior_developer",
               "qa_engineer", "devops_engineer", "scrum_master"}
        /\ Cardinality(DOMAIN ret.value.team_composition) = 6
        /\ ret.before = Fields

\* The status is read with two stories created, one of them in the planned
\* sprint, and one run recorded.
C13_Witness ==
    /\ StatusRead /\ create_calls = 2 /\ ret.value.backlog_size = 2
    /\ ret.value.sprint_history_count = 1
    /\ ret.value.current_sprint # None
    /\ backlog[1].status = "sprint_backlog" /\ backlog[2].status = "backlog"

KeyRead == ret.op = "get_llm_api_key"

\* C14: get_llm_api_key returns the key shared_llm_keys holds for the
\* service whenever the service is a key of shared_llm_keys, without using
\* Key Vault even when the service has a vault mapping; when the service is
\* not in shared_llm_keys and there is no vault configuration, no mapping for
\* the service, no credentials, or the vault lookup fails, it returns None
\* and does not raise.
C14_SharedKeyFirstElseVaultOrNone ==
    KeyRead =>
        LET cfg == Get(config)
            service_name == ret.args[1]
        IN /\ service_name \in DOMAIN cfg.shared_llm_keys =>
                 /\ ret.value = Some(cfg.shared_llm_keys[service_name])
                 /\ ~ret.vault_used
                 /\ ~ret.raised
           /\ /\ service_name \notin DOMAIN cfg.shared_llm_keys
              /\ \/ cfg.azure_key_vault = None
                 \/ service_name \notin DOMAIN cfg.llm_key_vault_mapping
                 \/ azure_credentials = None
                 \/ ret.lookup # "found"
              => ret.value = None /\ ~ret.raised

\* The shared key is returned for a service that also has a vault mapping,
\* with a vault configured, credentials built and a vault that holds the
\* secret.
C14_Witness ==
    /\ KeyRead /\ ret.args[1] = "openai" /\ ret.lookup = "found"
    /\ "openai" \in DOMAIN Get(config).shared_llm_keys
    /\ "openai" \in DOMAIN Get(config).llm_key_vault_mapping
    /\ Get(config).azure_key_vault # None /\ azure_credentials # None
    /\ ret.value = Some("key of openai")

\* None is returned because the vault lookup, which was made, failed.
C14_WitnessVaultFails ==
    /\ KeyRead /\ ret.args[1] = "anthropic" /\ ret.lookup = "service_error"
    /\ "anthropic" \notin DOMAIN Get(config).shared_llm_keys
    /\ ret.vault_used /\ ret.value = None

\* C15: every story's status is backlog or sprint_backlog; over any call a
\* story that was in status sprint_backlog is still in it, and every story
\* the backlog held is still there at the same position.
C15_StatusOnlyMovesForward ==
    /\ \A i \in 1..Len(backlog) : backlog[i].status \in {"backlog", "sprint_backlog"}
    /\ (Created \/ Planned \/ Ran \/ StatusRead \/ Exported) =>
          LET old == ret.before.backlog
          IN /\ Len(old) <= Len(backlog)
             /\ \A i \in 1..Len(old) :
                   /\ backlog[i].id = old[i].id
                   /\ old[i].status = "sprint_backlog" =>
                          backlog[i].status = "sprint_backlog"

\* A second plan moves the second story into its sprint and does not list
\* the first story, which stays in status sprint_backlog.
C15_Witness ==
    /\ Planned /\ plan_calls = 2 /\ Len(backlog) = 2
    /\ ret.before.backlog[1].status = "sprint_backlog"
    /\ ret.before.backlog[2].status = "backlog"
    /\ ret.value.stories = <<"US-002">>
    /\ backlog[1].status = "sprint_backlog" /\ backlog[2].status = "sprint_backlog"

\* C16: plan_sprint with an explicit empty list returns a sprint with an
\* empty stories list and leaves every story as it was, also when the
\* backlog holds stories an auto-selection would take; auto-selected lists
\* come from calls with the list absent only.
C16_EmptyListIsNotAutoSelected ==
    /\ ExplicitPlanned /\ Get(ret.args[2]) = <<>> =>
          /\ ret.value.stories = <<>>
          /\ backlog = ret.before.backlog
    /\ Planned /\ ret.value.stories # <<>> /\ ret.args[2] # None =>
          ret.value.stories = Get(ret.args[2])

\* The empty list is given while a story in status backlog fits the capacity.
C16_Witness ==
    /\ ExplicitPlanned /\ Get(ret.args[2]) = <<>> /\ ret.value.stories = <<>>
    /\ AutoSelect(ret.before.backlog, capacity_points) # <<>>
    /\ \E i \in 1..Len(backlog) :
          /\ backlog[i].status = "backlog"
          /\ backlog[i].story_points <= capacity_points

\* C17: the end timestamp of every sprint record plan_sprint returns is its
\* start timestamp plus the configured duration_days, whatever time passes
\* while the call runs.
C17_EndIsStartPlusDuration ==
    Planned => ret.value.end_date = AddDays(ret.value.start_date, DefaultDurationDays)

\* The story at position k is walked before the story at position i: it has
\* a lower priority value, or the same one and an earlier position.
WalkedBefore(bl, k, i) ==
    \/ bl[k].priority < bl[i].priority
    \/ bl[k].priority = bl[i].priority /\ k < i

\* The points of the stories with ids in `ids` that are walked before the
\* story at position i, summed from position k on.
RECURSIVE SpentBefore(_, _, _, _)
SpentBefore(bl, ids, i, k) ==
    IF k > Len(bl) THEN 0
    ELSE (IF bl[k].id \in ids /\ WalkedBefore(bl, k, i) THEN bl[k].story_points ELSE 0)
         + SpentBefore(bl, ids, i, k + 1)

\* The points still available when the walk reaches the story at position i.
RemainingAt(bl, capacity, ids, i) == capacity - SpentBefore(bl, ids, i, 1)

\* The position in the backlog of the story with the given id.
PositionOf(bl, id) == CHOOSE i \in 1..Len(bl) : bl[i].id = id

\* Stories i < j of the backlog are in status backlog with equal priority,
\* each fits the points remaining when story i is reached, and the two do
\* not fit together.
CompetingTie(bl, ids, i, j) ==
    LET remaining == RemainingAt(bl, capacity_points, ids, i)
    IN /\ i < j
       /\ bl[i].status = "backlog" /\ bl[j].status = "backlog"
       /\ bl[i].priority = bl[j].priority
       /\ bl[i].story_points <= remaining
       /\ bl[j].story_points <= remaining
       /\ bl[i].story_points + bl[j].story_points > remaining

\* A story in status backlog with the priority of stories i and j and
\* negative points lies between them in the backlog.
NegativeBetween(bl, i, j) ==
    \E k \in (i + 1)..(j - 1) :
        /\ bl[k].status = "backlog" /\ bl[k].priority = bl[i].priority
        /\ bl[k].story_points < 0

\* Selected stories of equal priority are listed in creation order, and the
\* list is a function of the backlog and the capacity.
TiesInCreationOrder(bl, list) ==
    /\ \A a, b \in 1..Len(list) :
          /\ a < b
          /\ bl[PositionOf(bl, list[a])].priority = bl[PositionOf(bl, list[b])].priority
          => PositionOf(bl, list[a]) < PositionOf(bl, list[b])
    /\ list = ReferenceSelection(bl, capacity_points)

\* C18 as stated: whenever two stories in status backlog have the same
\* priority and each fits the points remaining when the earlier-created one
\* is reached but the two do not fit together, an auto-selecting plan_sprint
\* selects the earlier-created one and not the later; selected stories of
\* equal priority are listed in creation order; and the list is a function of
\* the backlog and the capacity.
C18_TiesAlwaysGoToTheEarlierStory ==
    AutoPlanned =>
        LET bl == ret.before.backlog
            ids == IdsIn(ret.value.stories)
        IN /\ \A i, j \in 1..Len(bl) :
                 CompetingTie(bl, ids, i, j) => bl[i].id \in ids /\ bl[j].id \notin ids
           /\ TiesInCreationOrder(bl, ret.value.stories)

\* C18, amended: the same, for two stories with no story of their priority,
\* in status backlog and with negative points, created between them. (Such a
\* story, selected between the two, gives points back, and the later story
\* can then be selected as well.)
C18_TiesGoToTheEarlierStory ==
    AutoPlanned =>
        LET bl == ret.before.backlog
            ids == IdsIn(ret.value.stories)
        IN /\ \A i, j \in 1..Len(bl) :
                 CompetingTie(bl, ids, i, j) /\ ~NegativeBetween(bl, i, j)
                 => bl[i].id \in ids /\ bl[j].id \notin ids
           /\ TiesInCreationOrder(bl, ret.value.stories)

\* Two stories of priority 2 with 30 and 20 points meet a capacity of 40:
\* the first is selected and the second is not.
C18_Witness ==
    /\ AutoPlanned /\ capacity_points = 40 /\ Len(ret.before.backlog) >= 2
    /\ \A i \in 1..2 : /\ ret.before.backlog[i].status = "backlog"
                        /\ ret.before.backlog[i].priority = 2
    /\ backlog[1].story_points = 30 /\ backlog[2].story_points = 20
    /\ ret.value.stories = <<"US-001">>
    /\ backlog[1].status = "sprint_backlog" /\ backlog[2].status = "backlog"

\* The backlog of three stories in status backlog with points 30, 20, 10 and
\* priorities 1, 2, 3.
IsSkipBacklog(bl) ==
    /\ Len(bl) = 3
    /\ \A i \in 1..3 : bl[i].status = "backlog" /\ bl[i].priority = i
    /\ bl[1].story_points = 30 /\ bl[2].story_points = 20 /\ bl[3].story_points = 10

\* C19: an auto-selecting plan_sprint selects a story in status backlog
\* exactly when the story fits the points remaining at its turn in the walk:
\* a story that does not fit is passed over and the stories after it are
\* still tried (points 30, 20, 10 with priorities 1, 2, 3 and capacity 40
\* give the first and the third story), and a story passed over is not
\* taken later in the call, whatever the points remaining at the end; no
\* story is listed twice.
C19_MisfitsAreSkippedNotRevisited ==
    AutoPlanned =>
        LET bl == ret.before.backlog
            list == ret.value.stories
            ids == IdsIn(list)
        IN /\ \A i \in 1..Len(bl) :
                 bl[i].status = "backlog" =>
                     (bl[i].id \in ids <=>
                          bl[i].story_points <= RemainingAt(bl, capacity_points, ids, i))
           /\ \A a, b \in 1..Len(list) : a # b => list[a] # list[b]
           /\ IsSkipBacklog(bl) /\ capacity_points = 40 =>
                  list = <<"US-001", "US-003">>

\* Points 30, 20, 10 with priorities 1, 2, 3 meet a capacity of 40: the
\* second story is passed over and the third is selected.
C19_Witness ==
    /\ AutoPlanned /\ capacity_points = 40 /\ IsSkipBacklog(ret.before.backlog)
    /\ ret.value.stories = <<"US-001", "US-003">>
    /\ backlog[2].status = "backlog" /\ backlog[3].status = "sprint_backlog"

\* A story of 30 points is passed over at a capacity of 25 and stays out of
\* the sprint although the story of -5 points selected after it leaves 30
\* points at the end of the walk.
C19_WitnessNotRevisited ==
    /\ AutoPlanned /\ capacity_points = 25 /\ Len(backlog) = 2
    /\ ret.before.backlog[1].status = "backlog" /\ backlog[1].story_points = 30
    /\ backlog[1].priority = 1
    /\ backlog[2].story_points = -5 /\ backlog[2].priority = 2
    /\ ret.value.stories = <<"US-002">>
    /\ backlog[1].status = "backlog"

\* C20: plan_sprint returns the id Sprint-k with k one more than the number
\* of records the sprint history held at the call, and leaves the history as
\* it was; run_development_sprint adds exactly one record to the history and
\* every other call none, so the id of the current sprint is never ahead of
\* the number of runs recorded plus one.
C20_SprintIdCountsRecordedRuns ==
    /\ Planned =>
          /\ ret.value.id = ExpectedSprintIds[Len(ret.before.sprint_history) + 1]
          /\ sprint_history = ret.before.sprint_history
    /\ Ran => /\ Len(sprint_history) = Len(ret.before.sprint_history) + 1
              /\ SubSeq(sprint_history, 1, Len(ret.before.sprint_history))
                     = ret.before.sprint_history
    /\ (Created \/ StatusRead \/ Exported) => sprint_history = ret.before.sprint_history
    /\ current_sprint # None =>
          \E k \in 1..(Len(sprint_history) + 1) :
              Get(current_sprint).id = ExpectedSprintIds[k]

\* The second plan on the manager, made after one run was recorded, returns
\* Sprint-2.
C20_Witness ==
    /\ Planned /\ plan_calls = 2 /\ Len(ret.before.sprint_history) = 1
    /\ ret.value.id = "Sprint-2"

\* The first plan on a manager with one failed run recorded returns Sprint-2.
C20_WitnessFirstPlanAfterRun ==
    /\ Planned /\ plan_calls = 1 /\ Len(sprint_history) = 1
    /\ sprint_history[1].status = "failed"
    /\ ret.value.id = "Sprint-2"

\* C21: run_development_sprint does not raise when the runtime does; every
\* call appends exactly one record to the sprint history and returns it: a
\* record with status completed and phase COMPLETE when the runtime returns,
\* one with status failed, phase DEVELOPMENT and the error text when the
\* runtime raises; the backlog and the current sprint are as they were.
C21_RunRecordsEveryOutcome ==
    Ran =>
        /\ ~ret.raised
        /\ sprint_history = Append(ret.before.sprint_history, ret.value)
        /\ ~ret.outcome.raises =>
               ret.value.status = "completed" /\ ret.value.phase = "COMPLETE"
        /\ ret.outcome.raises =>
               /\ ret.value.status = "failed"
               /\ ret.value.phase = "DEVELOPMENT"
               /\ ret.value.error = ret.outcome.error
        /\ backlog = ret.before.backlog
        /\ current_sprint = ret.before.current_sprint

\* The runtime raises during a run made with a sprint planned and a story in
\* it; the failed run is recorded and returned.
C21_Witness ==
    /\ Ran /\ ret.outcome.raises
    /\ Len(sprint_history) = 1 /\ sprint_history[1].status = "failed"
    /\ sprint_history[1].error = "runtime error"
    /\ current_sprint # None /\ Len(backlog) = 2
    /\ backlog[1].status = "sprint_backlog"

\* The specified order of steps: filter to the stories in status backlog,
\* stable-sort them by priority, walk them testing only the fit.
SpecifiedSelection(bl, capacity) ==
    GreedyWalk(SortedByPriority(EligibleStories(bl)), capacity)

\* C22: for every backlog and capacity an auto-selecting plan_sprint, which
\* sorts the whole backlog and tests status and fit in the walk, returns the
\* list that filtering by status first, then sorting, then walking on fit
\* alone gives, and leaves the statuses that selection gives.
C22_SortThenFilterIsFilterThenSort ==
    AutoPlanned =>
        LET bl == ret.before.backlog
            specified == SpecifiedSelection(bl, capacity_points)
        IN /\ ret.value.stories = specified
           /\ specified = ReferenceSelection(bl, capacity_points)
           /\ Len(backlog) = Len(bl)
           /\ \A i \in 1..Len(bl) :
                 backlog[i].status =
                     IF bl[i].status = "backlog" /\ bl[i].id \in IdsIn(specified)
                     THEN "sprint_backlog"
                     ELSE bl[i].status

\* The walk passes a story that is already in a sprint, has the lowest
\* priority value and would fit, and selects a story behind it that fits
\* only because the first one is not counted.
C22_Witness ==
    /\ AutoPlanned /\ capacity_points = 40 /\ Len(backlog) = 2
    /\ ret.before.backlog[1].status = "sprint_backlog"
    /\ backlog[1].priority = 1 /\ backlog[1].story_points = 30
    /\ ret.before.backlog[2].status = "backlog"
    /\ backlog[2].priority = 2 /\ backlog[2].story_points = 20
    /\ ret.value.stories = <<"US-002">>

\* The points left over: the capacity minus the points of the stories of bl
\* with ids in `ids`.
LeftOver(bl, capacity, ids) == capacity - PointsOf(bl, ids, 1)

\* Every story of bl in status backlog has at least one story point.
EligiblePointsPositive(bl) ==
    \A i \in 1..Len(bl) : bl[i].status = "backlog" => bl[i].story_points >= 1

\* C23: after an auto-selecting plan_sprint on a backlog whose stories in
\* status backlog all have at least one story point, no story still in
\* status backlog has story points within the points left over.
C23_AutoSelectionIsMaximal ==
    AutoPlanned /\ EligiblePointsPositive(ret.before.backlog) =>
        LET left == LeftOver(backlog, capacity_points, IdsIn(ret.value.stories))
        IN \A i \in 1..Len(backlog) :
              backlog[i].status = "backlog" => backlog[i].story_points > left

\* Two stories are selected and fill the capacity of 25 exactly; one story
\* is passed over and stays in the backlog.
C23_Witness ==
    /\ AutoPlanned /\ capacity_points = 25 /\ Len(backlog) = 3
    /\ EligiblePointsPositive(ret.before.backlog)
    /\ Len(ret.value.stories) = 2
    /\ LeftOver(backlog, capacity_points, IdsIn(ret.value.stories)) = 0
    /\ \E i \in 1..3 : backlog[i].status = "backlog"

\* The positions of the stories of bl that fit the capacity on their own and
\* are still in status backlog.
UnplannedFitting(bl, capacity) ==
    {i \in 1..Len(bl) : bl[i].status = "backlog" /\ bl[i].story_points <= capacity}

\* The positions of the stories of bl that fit the capacity on their own and
\* are in one of the lists.
FittingSelected(bl, capacity, lists) ==
    {i \in 1..Len(bl) :
        /\ bl[i].story_points <= capacity
        /\ \E k \in 1..Len(lists) : bl[i].id \in IdsIn(lists[k])}

\* C24: with every story at 1 point or more and no story created in
\* between, an auto-selecting plan_sprint that finds a story in status
\* backlog with points within the capacity selects at least one such story;
\* so after n such calls either every story with points within the capacity
\* is in status sprint_backlog or at least n of them were selected, and as
\* many calls as there were such stories put all of them in a sprint.
C24_RepeatedPlansDrainTheFittingStories ==
    (\A i \in 1..Len(backlog) : backlog[i].story_points >= 1) =>
        LET waiting == UnplannedFitting(backlog, capacity_points)
            taken == FittingSelected(backlog, capacity_points, auto_sprints)
        IN /\ AutoPlanned /\ UnplannedFitting(ret.before.backlog, capacity_points) # {} =>
                 \E j \in 1..Len(ret.value.stories) :
                    \E i \in UnplannedFitting(ret.before.backlog, capacity_points) :
                        ret.value.stories[j] = backlog[i].id
           /\ waiting = {} \/ Cardinality(taken) >= Len(auto_sprints)
           /\ Len(auto_sprints) >= Cardinality(waiting) + Cardinality(taken) =>
                  waiting = {}

\* Two stories of 30 points meet a capacity of 40: the first call takes one,
\* the second call the other, and none is left waiting.
C24_Witness ==
    /\ AutoPlanned /\ capacity_points = 40 /\ Len(backlog) = 2
    /\ backlog[1].story_points = 30 /\ backlog[2].story_points = 30
    /\ Len(auto_sprints) = 2
    /\ Len(auto_sprints[1]) = 1 /\ Len(auto_sprints[2]) = 1
    /\ UnplannedFitting(backlog, capacity_points) = {}

\* The stories of bl with more points than the capacity are not in the list
\* and have in `after` the status they have in bl.
OverCapacityStoriesStay(bl, after, capacity, list) ==
    \A i \in 1..Len(bl) :
        bl[i].story_points > capacity =>
            /\ bl[i].id \notin IdsIn(list)
            /\ after[i].status = bl[i].status

\* C25 as stated: whatever the story points, an auto-selecting plan_sprint
\* does not select a story with more points than the capacity and leaves its
\* status as it was.
C25_OverCapacityStoriesAreNeverAutoSelected ==
    AutoPlanned =>
        OverCapacityStoriesStay(ret.before.backlog, backlog, capacity_points,
                                ret.value.stories)

\* C25, amended: when no story in status backlog has negative points, an
\* auto-selecting plan_sprint does not select a story with more points than
\* the capacity and leaves its status as it was (a selected story of
\* negative points raises the points available above the capacity).
C25_OverCapacityStoriesStayWithoutNegativePoints ==
    /\ AutoPlanned
    /\ \A i \in 1..Len(ret.before.backlog) :
          ret.before.backlog[i].status = "backlog" =>
              ret.before.backlog[i].story_points >= 0
    => OverCapacityStoriesStay(ret.before.backlog, backlog, capacity_points,
                               ret.value.stories)

\* A story of 30 points, first in the walk, meets a capacity of 25 and stays
\* in the backlog while a story behind it is selected.
C25_Witness ==
    /\ AutoPlanned /\ capacity_points = 25 /\ Len(backlog) >= 2
    /\ \A i \in 1..Len(backlog) : backlog[i].story_points >= 0
    /\ ret.before.backlog[1].status = "backlog"
    /\ backlog[1].story_points = 30 /\ backlog[1].priority = 1
    /\ backlog[1].status = "backlog"
    /\ ret.value.stories # <<>>

\* C26 as stated: however the steps of two create_user_story calls
\* interleave, the stories in the backlog have pairwise distinct ids and
\* every story a finished call built is in the backlog.
C26_InterleavedCreatesGetDistinctIds ==
    /\ Len(backlog) = create_calls
    /\ \A i, j \in 1..Len(backlog) : i # j => backlog[i].id # backlog[j].id

\* C26, amended: every story a finished create_user_story call built is in
\* the backlog, the last one appended being the one the call returned; the
\* ids are US-001, US-002, ... in backlog order, hence distinct, as long as
\* no call built its story while another call held a story not yet
\* appended.
C26_CreatesThatDoNotInterleaveGetDistinctIds ==
    /\ Len(backlog) = create_calls
    /\ Created => backlog[Len(backlog)] = ret.value
    /\ ~interleaved => \A i \in 1..Len(backlog) : backlog[i].id = ExpectedStoryIds[i]

\* Two calls interleaved and finished: both stories are in the backlog, with
\* different titles and the same id.
C26_Witness ==
    /\ interleaved /\ \A c \in Callers : pending[c] = None
    /\ Len(backlog) = 2 /\ create_calls = 2
    /\ backlog[1].title # backlog[2].title
    /\ backlog[1].id = "US-001" /\ backlog[2].id = "US-001"

\* The calls of the MCP server's tools.
Retrieved == ret.op = "retrieve_memory"
Sent == ret.op = "send_message"
Chatted == ret.op = "run_group_chat"

\* The save_memory calls made so far with this key and this context.
SavesOf(key, context) ==
    SelectSeq(saves, LAMBDA s : s.key = key /\ s.context = context)

\* C27: retrieve_memory(key, context) returns the content of the most recent
\* save_memory made with the same key and the same context, whatever was
\* saved under other (key, context) pairs, and the 'No content found' result
\* when that pair was never saved.
C27_RetrieveReturnsTheLastSaveOfThePair ==
    Retrieved =>
        LET mine == SavesOf(ret.args[1], EffectiveContext(ret.args[2]))
        IN IF mine = <<>>
           THEN ret.value.text[1] = "No content found for key: "
           ELSE /\ ret.value.text[1] = "Retrieved from memory: "
                /\ ret.value.text[2].content = mine[Len(mine)].content

\* The call returned an error result, asked no agent, and left the agent
\* registry, the conversations and the memory store as they were.
Rejected ==
    /\ ret.value.isError
    /\ ret.invoked = <<>>
    /\ agents = ret.before.agents
    /\ active_conversations = ret.before.active_conversations
    /\ memory_store = ret.before.memory_store

\* C28: send_message naming a sender that is not registered, and
\* run_group_chat naming at least one participant that is not registered,
\* return an error result without invoking any agent and leave agents,
\* active_conversations and memory_store unchanged.
C28_UnknownAgentsAreRejected ==
    /\ (Sent /\ ret.args[1] \notin DOMAIN ret.before.agents) => Rejected
    /\ (Chatted /\ \E i \in 1..Len(ret.args[1]) :
                       ret.args[1][i] \notin DOMAIN ret.before.agents) => Rejected

\* A group chat of a registered agent followed by an unregistered one, with
\* rounds to run, was rejected on a server that holds an agent and a memory
\* record.
C28_Witness ==
    /\ Chatted /\ Len(ret.args[1]) = 2 /\ ret.args[3] > 0
    /\ ret.args[1][1] \in DOMAIN agents /\ ret.args[1][2] \notin DOMAIN agents
    /\ DOMAIN memory_store # {}
    /\ Rejected

\* A message from an unregistered sender was rejected on a server that holds
\* an agent and a conversation.
C28_WitnessSend ==
    /\ Sent /\ ret.args[1] \notin DOMAIN agents
    /\ DOMAIN agents # {} /\ DOMAIN active_conversations # {}
    /\ Rejected

====
